---- MODULE Spec2Model ----
(***************************************************************************)
(* Model of the hex_machina ingestion pipeline: IngestionRunner.run, the   *)
(* RSS feed callback, the Playwright and stealth article callbacks and     *)
(* errbacks, ArticleStorePipeline.process_item and the DuckDB adapter.     *)
(*                                                                         *)
(* One run is modelled.  Storage may already hold the records of an        *)
(* earlier run.  A feed entry is an input drawn when the feed callback     *)
(* reaches it; a fetched page is an input drawn when the article callback  *)
(* receives it.  The item pipeline is synchronous: Scrapy calls            *)
(* process_item for an item at the moment the callback yields it, so a     *)
(* callback and the process_item calls for the items it yields form one    *)
(* step.  The specification SpecConc splits process_item of two            *)
(* independent writers into its two storage calls.                         *)
(*                                                                         *)
(* RSSArticleScraper.parse hands each accepted candidate to parse_article, *)
(* which builds the Playwright request; the request is modelled as         *)
(* scheduled at that point.                                                *)
(***************************************************************************)
EXTENDS Integers, Sequences, FiniteSets, TLC

\* ---------------------------------------------------------------- bounds
MaxScrapers == 1
MaxEntries == 3
MaxRequests == 2
MaxCalls == 2
NumWriters == 2
MaxLines == 3
MaxRawScrapers == 2

\* ------------------------------------------------------- program constants
PLAYWRIGHT == "playwright_rss_article_scraper"
STEALTH == "stealth_playwright_rss_article_scraper"
SCRAPER_CLASS_MAP == {PLAYWRIGHT, STEALTH}
MIN_HTML_LENGTH == 10000
MIN_TEXT_LENGTH == 465

\* Python's None, for strings
None == "None"
\* None as the result of DateParser.parse_date; parsed dates are day ordinals
NoDate == 0
\* CLOSESPIDER_ITEMCOUNT not set
NoLimit == 0
\* ScraperConfig.max_retries as configured for the stealth scraper
max_retries == 2
\* the string _generate_run_id returns, which is no id of storage
GeneratedRunId == -1
\* settings.get("INGESTION_RUN_ID") when the setting is not set
NoRunId == -2
\* validate_content warns about content shorter than this, line 152
MIN_CONTENT_LENGTH == 100

\* ------------------------------------------------------------ input sets
\* raw feed entries: title, link and published string
Entry(title, link, published) ==
    [title |-> title, link |-> link, published |-> published]

FeedEntries ==
    {Entry("A", "http://d1/a", "2024-01-01"),
     Entry("B", "http://d1/a", "2024-01-01"),
     Entry("A", "http://d2/a", "2024-01-01"),
     Entry("A", "http://d1/a", "2023-12-31"),
     Entry("B", "http://d1/a", "not a date"),
     Entry("", "http://d1/a", "2024-01-01"),
     Entry("B", "", "2024-01-01")}
\* configured date threshold (a date string or None) and article limit
Thresholds == {None, "2024-01-01"}
Limits == {NoLimit, 1}
\* what a fetched page holds: validator verdict, CAPTCHA markup, the call
\* that raises, lengths of page.content() and of document.body.innerText
Lens == {<<9999, 465>>, <<10000, 464>>, <<10000, 465>>}
Pages ==
    {[has_page |-> TRUE, valid |-> v, captcha |-> c, raises |-> r,
      html_len |-> l[1], text_len |-> l[2]] :
        v \in BOOLEAN, c \in BOOLEAN,
        r \in {"none", "content", "evaluate"}, l \in Lens}
    \cup
    {[has_page |-> FALSE, valid |-> v, captcha |-> FALSE, raises |-> "none",
      html_len |-> l[1], text_len |-> l[2]] : v \in BOOLEAN, l \in Lens}
\* str(failure.type) of a failed request
FailureTypes == {"<class 'twisted.internet.error.TimeoutError'>",
                 "<class 'scrapy.spidermiddlewares.httperror.HttpError'>"}

VARIABLES
    scrapers,          \* config.scrapers: the configured scraper types
    limit_date,        \* INGESTION_DATE_THRESHOLD
    articles_limit,    \* CLOSESPIDER_ITEMCOUNT
    runPc,             \* position of IngestionRunner.run
    ingestion_run_id,  \* saved_op.id, 0 before the record exists
    summary,           \* summary dict of run
    ops,               \* table ingestion_operations
    articles,          \* table articles
    feed,              \* per spider: feed callback position and counter
    lastEntry,         \* the entry the feed callbacks handled last, and how
    cand,              \* per spider: the candidates handed to parse_article
    calls,             \* SpecPipe: the items process_item was called with
    writers,           \* SpecConc: the persist calls in progress
    feedDoc,           \* SpecScenario: feed.entries of the feed document
    opUpdates,         \* update_ingestion_operation calls made by run
    settings_run_id,   \* the setting INGESTION_RUN_ID
    GLOBAL_STORAGE_MANAGER  \* the module global of scrapy_pipelines

vars == <<scrapers, limit_date, articles_limit, runPc, ingestion_run_id,
          summary, ops, articles, feed, lastEntry, cand, calls, writers,
          feedDoc, opUpdates, settings_run_id, GLOBAL_STORAGE_MANAGER>>

\* the variables only SpecPipe and SpecConc change
pipe == <<calls, writers>>

\* the configuration of the run
params == <<scrapers, limit_date, articles_limit, feedDoc>>

config == <<scrapers, limit_date, articles_limit, feedDoc, settings_run_id,
           GLOBAL_STORAGE_MANAGER>>

\* ------------------------------------------------------------- storage
\* add_ingestion_operation storing another status than the one it is given
add_ingestion_operation_Pending(table, op) ==
    Append(table, [op EXCEPT !.status = "pending"])

\* DuckDBAdapter.add_ingestion_operation: the sequence assigns the id
add_ingestion_operation(table, op) == Append(table, op)

\* DuckDBAdapter.update_ingestion_operation
update_ingestion_operation(table, id, op) == [table EXCEPT ![id] = op]

\* add_article over a table with a unique (url_domain, title) constraint
add_article_Unique(table, row) ==
    IF \E i \in 1..Len(table) :
          table[i].url_domain = row.url_domain /\ table[i].title = row.title
    THEN table
    ELSE Append(table, row)

\* DuckDBAdapter.add_article: no uniqueness constraint on ArticleDB
add_article(table, row) == Append(table, row)

\* DuckDBAdapter.get_article_by_domain_and_title: TRUE when a row matches
get_article_by_domain_and_title(table, url_domain, title) ==
    \E i \in 1..Len(table) :
        table[i].url_domain = url_domain /\ table[i].title = title

\* StorageManager.get_articles_for_operation: list_articles() on both
\* branches, whatever run_id is
get_articles_for_operation(table, run_id) == table

\* count_articles_for_operation without the run id filter
count_articles_for_operation_All(table, id) == Len(table)

\* DuckDBAdapter.count_articles_for_operation
count_articles_for_operation(table, id) ==
    Cardinality({i \in 1..Len(table) : table[i].ingestion_run_id = id})

\* DuckDBAdapter.count_errors_for_operation
count_errors_for_operation(table, id) ==
    Cardinality({i \in 1..Len(table) :
        table[i].ingestion_run_id = id
        /\ table[i].ingestion_error_status # None})

\* ------------------------------------------------------------- parsing
\* DateParser.parse_date: the day ordinal of a string some format matches,
\* None for None, for the empty string and for a string no format matches
parse_date(date_input) ==
    CASE date_input = "2023-12-31" -> 19722
      [] date_input = "2024-01-01" -> 19723
      [] date_input = "2024-01-02" -> 19724
      [] OTHER -> NoDate

\* ArticleParser.parse_url_domain: netloc of the url, "" without a url
parse_url_domain(url) ==
    CASE url = "http://d1/a" -> "d1"
      [] url = "http://d2/a" -> "d2"
      [] url = "http://d3/gone" -> "d3"
      [] OTHER -> ""

\* DateParser.compare_dates on two parsed dates
compare_dates(date1, date2) ==
    IF date1 = NoDate \/ date2 = NoDate THEN 0
    ELSE IF date1 < date2 THEN -1
    ELSE IF date1 > date2 THEN 1
    ELSE 0

\* is_date_after_threshold with the comparison turned round
is_date_after_threshold_Swapped(date, threshold) ==
    IF date = NoDate \/ threshold = NoDate THEN TRUE
    ELSE compare_dates(date, threshold) <= 0

\* is_date_after_threshold that rejects a date equal to the threshold
is_date_after_threshold_Strict(date, threshold) ==
    IF date = NoDate \/ threshold = NoDate THEN TRUE
    ELSE compare_dates(date, threshold) > 0

\* DateParser.is_date_after_threshold
is_date_after_threshold(date, threshold) ==
    IF date = NoDate \/ threshold = NoDate THEN TRUE
    ELSE compare_dates(date, threshold) >= 0

\* BaseArticleScraper.check_published_date
check_published_date(published_date) ==
    is_date_after_threshold(published_date, limit_date)

\* ------------------------------------------------------ item pipeline
\* _validate_content_lengths without the text length check
_validate_content_lengths_HtmlOnly(item) ==
    IF item.ingestion_error_status # None /\ item.ingestion_error_status # ""
    THEN <<item.ingestion_error_status,
           IF item.ingestion_error_message = None THEN ""
           ELSE item.ingestion_error_message>>
    ELSE IF item.html_len < MIN_HTML_LENGTH
    THEN <<"HTML_TOO_SHORT", "HTML content too short">>
    ELSE <<None, "">>

\* _validate_content_lengths that looks at the lengths first
_validate_content_lengths_LengthFirst(item) ==
    IF item.html_len < MIN_HTML_LENGTH
    THEN <<"HTML_TOO_SHORT", "HTML content too short">>
    ELSE IF item.text_len < MIN_TEXT_LENGTH
    THEN <<"TEXT_TOO_SHORT", "Text content too short">>
    ELSE IF item.ingestion_error_status # None /\ item.ingestion_error_status # ""
    THEN <<item.ingestion_error_status,
           IF item.ingestion_error_message = None THEN ""
           ELSE item.ingestion_error_message>>
    ELSE <<None, "">>

\* ArticleStorePipeline._validate_content_lengths: <<status, message>>
_validate_content_lengths(item) ==
    IF item.ingestion_error_status # None /\ item.ingestion_error_status # ""
    THEN <<item.ingestion_error_status,
           IF item.ingestion_error_message = None THEN ""
           ELSE item.ingestion_error_message>>
    ELSE IF item.html_len < MIN_HTML_LENGTH
    THEN <<"HTML_TOO_SHORT", "HTML content too short">>
    ELSE IF item.text_len < MIN_TEXT_LENGTH
    THEN <<"TEXT_TOO_SHORT", "Text content too short">>
    ELSE <<None, "">>

\* an ArticleDB row that keeps the scraper name only
ArticleDB_NoMetadata(item, spider_name, run_id) ==
    [title |-> item.title,
     url_domain |-> item.url_domain,
     published_date |-> item.published_date,
     html_len |-> item.html_len,
     text_len |-> item.text_len,
     scraper_name |-> spider_name,
     ingestion_metadata |-> {"scraper_name"},
     ingestion_run_id |-> run_id,
     ingestion_error_status |-> _validate_content_lengths(item)[1],
     ingestion_error_message |-> _validate_content_lengths(item)[2]]

\* the ArticleDB row process_item builds for an item; scraper_name is the
\* value process_item puts under that key of ingestion_metadata
ArticleDB(item, spider_name, run_id) ==
    [title |-> item.title,
     url_domain |-> item.url_domain,
     published_date |-> item.published_date,
     html_len |-> item.html_len,
     text_len |-> item.text_len,
     scraper_name |-> spider_name,
     ingestion_metadata |-> item.ingestion_metadata \cup {"scraper_name"},
     ingestion_run_id |-> run_id,
     ingestion_error_status |-> _validate_content_lengths(item)[1],
     ingestion_error_message |-> _validate_content_lengths(item)[2]]

\* process_item without the existence check
process_item_NoCheck(table, item, spider_name, run_id) ==
    IF item.kind # "article" THEN table
    ELSE add_article(table, ArticleDB(item, spider_name, run_id))

\* process_item that updates the existing row instead of skipping
process_item_Update(table, item, spider_name, run_id) ==
    IF item.kind # "article" THEN table
    ELSE IF get_article_by_domain_and_title(table, item.url_domain, item.title)
    THEN [i \in 1..Len(table) |->
            IF table[i].url_domain = item.url_domain
               /\ table[i].title = item.title
            THEN ArticleDB(item, spider_name, run_id) ELSE table[i]]
    ELSE add_article(table, ArticleDB(item, spider_name, run_id))

\* process_item that discards an item whose content is too short
process_item_DropShort(table, item, spider_name, run_id) ==
    IF item.kind # "article" THEN table
    ELSE IF get_article_by_domain_and_title(table, item.url_domain, item.title)
    THEN table
    ELSE IF _validate_content_lengths(item)[1]
              \in {"HTML_TOO_SHORT", "TEXT_TOO_SHORT"}
    THEN table
    ELSE add_article(table, ArticleDB(item, spider_name, run_id))

\* ArticleStorePipeline.process_item: the articles table after the call.
\* An item that is not an article (the dict the stealth errback returns)
\* fails ArticleModel(**item) and nothing is stored.
process_item(table, item, spider_name, run_id) ==
    IF item.kind # "article" THEN table
    ELSE IF get_article_by_domain_and_title(table, item.url_domain, item.title)
    THEN table
    ELSE add_article(table, ArticleDB(item, spider_name, run_id))

\* the pipeline applied to the items a callback yields, in order
RECURSIVE process_items(_, _, _, _)
process_items(table, items, spider_name, run_id) ==
    IF items = <<>> THEN table
    ELSE process_items(process_item(table, Head(items), spider_name, run_id),
                       Tail(items), spider_name, run_id)

\* ------------------------------------------------------ article callbacks
\* the article object an item carries when it is yielded
Item(article) == [kind |-> "article"] @@ article

\* the error_info dict of the errbacks
ErrorInfo(article, failure_type) ==
    [kind |-> "error_info", error_type |-> failure_type,
     article_title |-> article.title]

WithError(article, status, message) ==
    [article EXCEPT !.ingestion_error_status = status,
                    !.ingestion_error_message = message]

WithContent(article, page) ==
    [article EXCEPT !.html_len = page.html_len, !.text_len = page.text_len]

\* article.ingestion_metadata = {...}: the keys of the dict, the captcha
\* flag with its value
WithMetadata(article, keys) ==
    [article EXCEPT !.ingestion_metadata = {"scraper_name"} \cup keys]

\* PlaywrightRSSArticleScraper.parse: <<article after the call, items yielded>>
PlaywrightParse(article, page) ==
    LET blocked == WithMetadata(WithError(article, "content_blocked",
                                          "Content validation failed"),
                                {"validation_result"})
        a1 == IF page.valid THEN article ELSE blocked
        y1 == IF page.valid THEN <<>> ELSE <<Item(blocked)>>
        failed == WithMetadata(WithError(a1, "page_processing_error", "error"),
                               {"error"})
    IN  IF page.has_page
        THEN IF page.raises = "content"
             THEN LET a == WithMetadata(WithError(article,
                                "page_processing_error", "error"), {"error"})
                  IN  <<a, <<Item(a)>>>>
             ELSE LET a2 == IF page.captcha
                            THEN WithMetadata(
                                   WithError(a1, "captcha_detected",
                                             "CAPTCHA detected"),
                                   {"captcha_found=True", "validation_result"})
                            ELSE IF page.raises = "evaluate"
                            THEN failed
                            ELSE WithMetadata(WithContent(a1, page),
                                   {"captcha_found=False", "validation_result"})
                  IN  <<a2, y1 \o <<Item(a2)>>>>
        ELSE LET a2 == WithMetadata(WithContent(a1, page),
                                    {"validation_result"})
             IN  <<a2, y1 \o <<Item(a2)>>>>

\* StealthPlaywrightRSSArticleScraper.parse
StealthParse(article, page) ==
    LET blocked == WithMetadata(WithError(article, "content_blocked",
                                    "Stealth content validation failed"),
                                {"validation_result"})
        failed == WithMetadata(WithError(article,
                        "stealth_page_processing_error", "error"), {"error"})
    IN  IF page.has_page
        THEN IF page.raises = "content"
             THEN <<failed, <<Item(failed)>>>>
             ELSE IF ~page.valid
             THEN <<blocked, <<>>>>
             ELSE IF page.captcha
             THEN LET a == WithMetadata(article,
                              {"captcha_found=True", "validation_result"})
                  IN  <<a, <<Item(a)>>>>
             ELSE IF page.raises = "evaluate"
             THEN <<failed, <<Item(failed)>>>>
             ELSE LET a == WithMetadata(WithContent(article, page),
                              {"captcha_found=False", "validation_result",
                               "suspicious_elements"})
                  IN  <<a, <<Item(a)>>>>
        ELSE IF ~page.valid
             THEN <<blocked, <<>>>>
             ELSE LET a == WithMetadata(WithContent(article, page),
                                        {"validation_result"})
                  IN  <<a, <<Item(a)>>>>

\* PlaywrightRSSArticleScraper.handle_error: yields the article
PlaywrightHandleError(article, failure_type) ==
    LET a == WithMetadata(WithError(article, failure_type, "failure"),
                          {"error"})
    IN  <<a, <<Item(a)>>>>

\* StealthPlaywrightRSSArticleScraper.handle_error: returns error_info
StealthHandleError(article, failure_type) ==
    LET a == WithMetadata(WithError(article, failure_type, "failure"),
                          {"error"})
    IN  <<a, <<ErrorInfo(article, failure_type)>>>>

\* the page methods parse awaits when close() stands at the end of the try
\* body instead of in a finally branch
PageCalls_NoFinally(type, page) ==
    IF ~page.has_page THEN <<>>
    ELSE IF page.raises = "content" THEN <<"content">>
    ELSE IF type = STEALTH /\ ~page.valid THEN <<"content">>
    ELSE IF page.captcha THEN <<"content", "query_selector", "close">>
    ELSE IF page.raises = "evaluate"
    THEN <<"content", "query_selector", "evaluate">>
    ELSE <<"content", "query_selector", "evaluate">>
         \o (IF type = STEALTH THEN <<"query_selector_all">> ELSE <<>>)
         \o <<"close">>

\* the methods of the Playwright page that parse awaits, in order, on the
\* path the page takes: content(), the CAPTCHA probe, evaluate(), and
\* close() in the finally branch of the try that holds them all
PageCalls(type, page) ==
    IF ~page.has_page THEN <<>>
    ELSE (IF page.raises = "content" THEN <<"content">>
          ELSE IF type = STEALTH /\ ~page.valid THEN <<"content">>
          ELSE IF page.captcha THEN <<"content", "query_selector">>
          ELSE IF page.raises = "evaluate"
          THEN <<"content", "query_selector", "evaluate">>
          ELSE <<"content", "query_selector", "evaluate">>
               \o (IF type = STEALTH THEN <<"query_selector_all">>
                   ELSE <<>>))
         \o <<"close">>

\* parse with a text extraction that never raises
Parse_NoExcept(type, article, page) ==
    IF type = STEALTH
    THEN StealthParse(article, [page EXCEPT !.raises = "none"])
    ELSE PlaywrightParse(article, [page EXCEPT !.raises = "none"])

\* the callback and errback of the spider class of a scraper type
Parse(type, article, page) ==
    IF type = STEALTH THEN StealthParse(article, page)
    ELSE PlaywrightParse(article, page)

HandleError(type, article, failure_type) ==
    IF type = STEALTH THEN StealthHandleError(article, failure_type)
    ELSE PlaywrightHandleError(article, failure_type)

\* ----------------------------------------------------------- initial state
\* rows an earlier run (id 1) may have left in storage
PriorRowA ==
    [title |-> "A", url_domain |-> "d1", published_date |-> 19723,
     html_len |-> 10000, text_len |-> 465, scraper_name |-> PLAYWRIGHT,
     ingestion_metadata |-> {"scraper_name", "captcha_found=False",
                             "validation_result"},
     ingestion_run_id |-> 1, ingestion_error_status |-> None,
     ingestion_error_message |-> ""]

PriorRowB ==
    [title |-> "B", url_domain |-> "d1", published_date |-> 19723,
     html_len |-> 0, text_len |-> 0, scraper_name |-> PLAYWRIGHT,
     ingestion_metadata |-> {"scraper_name", "validation_result"},
     ingestion_run_id |-> 1, ingestion_error_status |-> "content_blocked",
     ingestion_error_message |-> "Content validation failed"]

PriorArticles == {<<>>, <<PriorRowA, PriorRowB>>}

PriorOp(rows) ==
    [status |-> "completed", end_time |-> "now",
     num_articles_processed |-> count_articles_for_operation(rows, 1),
     num_errors |-> count_errors_for_operation(rows, 1)]

ScraperConfigs ==
    UNION {[1..n -> SCRAPER_CLASS_MAP] : n \in 0..MaxScrapers}

Init ==
    /\ scrapers \in ScraperConfigs
    /\ limit_date \in {parse_date(t) : t \in Thresholds}
    /\ articles_limit \in Limits
    /\ runPc = "init"
    /\ ingestion_run_id = 0
    /\ summary = [crawlers_run |-> 0, errors |-> <<>>]
    /\ articles \in PriorArticles
    /\ ops = IF articles = <<>> THEN <<>> ELSE <<PriorOp(articles)>>
    /\ feed = [s \in DOMAIN scrapers |->
                 [pc |-> "idle", pos |-> 0, processed_counter |-> 0]]
    /\ lastEntry = <<>>
    /\ cand = [s \in DOMAIN scrapers |-> <<>>]
    /\ calls = <<>>
    /\ writers = <<>>
    /\ feedDoc = <<>>
    /\ opUpdates = 0
    /\ settings_run_id = GeneratedRunId
    /\ GLOBAL_STORAGE_MANAGER = None

\* ------------------------------------------------------ IngestionRunner.run
\* run without line 232: the setting keeps the generated string
RunCreate_NoSet ==
    /\ runPc = "init"
    /\ ops' = add_ingestion_operation(ops,
                 [status |-> "running", end_time |-> "start_time",
                  num_articles_processed |-> 0, num_errors |-> 0])
    /\ ingestion_run_id' = Len(ops')
    /\ GLOBAL_STORAGE_MANAGER' = "storage_manager"
    /\ runPc' = "created"
    /\ UNCHANGED <<pipe, params, settings_run_id, summary, articles, feed,
                   lastEntry, cand, opUpdates>>

\* run without line 212: the module global keeps its value
RunCreate_NoManager ==
    /\ runPc = "init"
    /\ ops' = add_ingestion_operation(ops,
                 [status |-> "running", end_time |-> "start_time",
                  num_articles_processed |-> 0, num_errors |-> 0])
    /\ ingestion_run_id' = Len(ops')
    /\ settings_run_id' = ingestion_run_id'
    /\ runPc' = "created"
    /\ UNCHANGED <<pipe, params, GLOBAL_STORAGE_MANAGER, summary, articles,
                   feed, lastEntry, cand, opUpdates>>

\* run, lines 212-245: the storage manager is put in the module global,
\* the run record is created, its id obtained and put in the setting
\* INGESTION_RUN_ID
RunCreate ==
    /\ runPc = "init"
    /\ ops' = add_ingestion_operation(ops,
                 [status |-> "running", end_time |-> "start_time",
                  num_articles_processed |-> 0, num_errors |-> 0])
    /\ ingestion_run_id' = Len(ops')
    /\ settings_run_id' = ingestion_run_id'
    /\ GLOBAL_STORAGE_MANAGER' = "storage_manager"
    /\ runPc' = "created"
    /\ UNCHANGED <<pipe, params, summary, articles, feed, lastEntry, cand,
                   opUpdates>>

\* run, lines 270-273: the except branch marks the record failed
ExceptUpdate(table, id) ==
    update_ingestion_operation(table, id,
        [table[id] EXCEPT !.status = "failed", !.end_time = "now"])

\* a finally branch that writes the counts only
Finalize_CountsOnly(table, id, rows, errors) ==
    update_ingestion_operation(table, id,
        [table[id] EXCEPT
            !.num_articles_processed = count_articles_for_operation(rows, id),
            !.num_errors = count_errors_for_operation(rows, id)])

\* a finally branch that writes "completed" whatever the summary holds
Finalize_Completed(table, id, rows, errors) ==
    update_ingestion_operation(table, id,
        [status |-> "completed",
         end_time |-> "now",
         num_articles_processed |-> count_articles_for_operation(rows, id),
         num_errors |-> count_errors_for_operation(rows, id)])

\* run, lines 274-290: the finally branch writes end_time, status and the
\* counts queried from storage
Finalize(table, id, rows, errors) ==
    update_ingestion_operation(table, id,
        [status |-> IF errors = <<>> THEN "completed" ELSE "failed",
         end_time |-> "now",
         num_articles_processed |-> count_articles_for_operation(rows, id),
         num_errors |-> count_errors_for_operation(rows, id)])

\* the except branch followed by the finally branch
RunRaises(crawlers_run) ==
    /\ summary' = [crawlers_run |-> crawlers_run,
                   errors |-> Append(summary.errors, "error")]
    /\ ops' = Finalize(ExceptUpdate(ops, ingestion_run_id), ingestion_run_id,
                       articles, summary'.errors)
    /\ opUpdates' = opUpdates + 2
    /\ runPc' = "done"

\* run, lines 247-265: every configured scraper is handed to the crawler
\* process; with none, run goes straight to the finally branch
RunSchedule ==
    /\ runPc = "created"
    /\ LET known == {s \in DOMAIN scrapers : scrapers[s] \in SCRAPER_CLASS_MAP}
       IN  /\ summary' = [summary EXCEPT !.crawlers_run = Cardinality(known)]
           /\ IF known # {}
              THEN /\ runPc' = "crawling"
                   /\ opUpdates' = opUpdates
                   /\ feed' = [s \in DOMAIN feed |->
                                IF s \in known
                                THEN [feed[s] EXCEPT !.pc = "parsing"]
                                ELSE feed[s]]
                   /\ ops' = ops
              ELSE /\ runPc' = "done"
                   /\ opUpdates' = opUpdates + 1
                   /\ feed' = feed
                   /\ ops' = Finalize(ops, ingestion_run_id, articles,
                                      summary'.errors)
    /\ UNCHANGED <<pipe, config, ingestion_run_id, articles, lastEntry, cand>>

\* crawler_process.crawl raises for the k-th scraper
RunScheduleRaises ==
    /\ runPc = "created"
    /\ \E k \in DOMAIN scrapers : RunRaises(k - 1)
    /\ UNCHANGED <<pipe, config, ingestion_run_id, articles, feed, lastEntry, cand>>

\* crawler_process.start raises, at once or with the crawl part-way
RunCrawlRaises ==
    /\ runPc = "crawling"
    /\ RunRaises(summary.crawlers_run)
    /\ UNCHANGED <<pipe, config, ingestion_run_id, articles, feed, lastEntry, cand>>

\* crawler_process.start returns: every spider is idle
RunCrawlReturns ==
    /\ runPc = "crawling"
    /\ \A s \in DOMAIN feed : feed[s].pc = "done"
    /\ \A s \in DOMAIN cand : \A i \in DOMAIN cand[s] : cand[s][i].st = "done"
    /\ ops' = Finalize(ops, ingestion_run_id, articles, summary.errors)
    /\ opUpdates' = opUpdates + 1
    /\ runPc' = "done"
    /\ UNCHANGED <<pipe, config, ingestion_run_id, summary, articles, feed, lastEntry,
                   cand>>

\* ------------------------------------------------------------ feed callback
\* check_limit that never reports the limit as reached
check_limit_Never(s) == FALSE

\* check_limit: the spider has handed articles_limit candidates on
check_limit(s) ==
    articles_limit # NoLimit /\ feed[s].processed_counter >= articles_limit

\* the ScrapedArticle the feed callback builds, lines 69-88
ScrapedArticle(title, url_domain, published_date) ==
    [title |-> title, url_domain |-> url_domain,
     published_date |-> published_date,
     html_len |-> 0, text_len |-> 0, ingestion_metadata |-> {},
     ingestion_error_status |-> None, ingestion_error_message |-> None]

\* Disposition with a check that looks at the title only
Disposition_TitleOnly(entry) ==
    IF entry.title = "" THEN "missing"
    ELSE IF ~check_published_date(parse_date(entry.published)) THEN "old"
    ELSE IF parse_date(entry.published) = NoDate THEN "error"
    ELSE "dispatched"

\* what one iteration of the entry loop does with an entry: "missing"
\* (no title or url), "old" (date check fails), "error" (building the
\* article raises: published_date is None), "dispatched"
Disposition(entry) ==
    IF entry.title = "" \/ entry.link = "" THEN "missing"
    ELSE IF ~check_published_date(parse_date(entry.published)) THEN "old"
    ELSE IF parse_date(entry.published) = NoDate THEN "error"
    ELSE "dispatched"

\* the article requests scheduled in the run so far
RECURSIVE SumLen(_, _)
SumLen(f, n) == IF n = 0 THEN 0 ELSE Len(f[n]) + SumLen(f, n - 1)
Requests == SumLen(cand, Len(scrapers))

\* RSSArticleScraper.parse, lines 42-119: the body of the loop for one entry
ParseEntry(s, entry) ==
    /\ lastEntry' = <<[entry |-> entry, disposition |-> Disposition(entry)]>>
    /\ IF Disposition(entry) = "dispatched"
       THEN /\ cand' = [cand EXCEPT ![s] = Append(@,
                  [article |-> ScrapedArticle(entry.title,
                                   parse_url_domain(entry.link),
                                   parse_date(entry.published)),
                   st |-> "fetching", emitted |-> 0,
                   attempts |-> 1, via |-> None])]
            /\ feed' = [feed EXCEPT ![s].pos = @ + 1,
                                    ![s].processed_counter = @ + 1]
       ELSE /\ cand' = cand
            /\ feed' = [feed EXCEPT ![s].pos = @ + 1]

\* RSSArticleScraper.parse, one iteration of the loop over feed.entries
FeedParseEntry(s) ==
    /\ runPc = "crawling"
    /\ feed[s].pc = "parsing"
    /\ feed[s].pos < MaxEntries
    /\ ~check_limit(s)
    /\ \E entry \in FeedEntries :
         /\ Disposition(entry) = "dispatched" => Requests < MaxRequests
         /\ ParseEntry(s, entry)
    /\ UNCHANGED <<pipe, config, runPc, ingestion_run_id, summary, ops, articles,
                   opUpdates>>

\* the end of one feed callback ending every feed callback of the run
FeedEnd_All(s) ==
    /\ runPc = "crawling"
    /\ feed[s].pc = "parsing"
    /\ feed' = [t \in DOMAIN feed |-> [feed[t] EXCEPT !.pc = "done"]]
    /\ UNCHANGED <<pipe, config, runPc, ingestion_run_id, summary, ops, articles,
                   lastEntry, cand, opUpdates>>

\* the loop ends: the limit is reached, the entries are exhausted, or the
\* feed document has no entries or does not parse
FeedEnd(s) ==
    /\ runPc = "crawling"
    /\ feed[s].pc = "parsing"
    /\ feed' = [feed EXCEPT ![s].pc = "done"]
    /\ UNCHANGED <<pipe, config, runPc, ingestion_run_id, summary, ops, articles,
                   lastEntry, cand, opUpdates>>

\* --------------------------------------------------- article request ends
\* how many of the yielded items are articles
Articles(items) ==
    Cardinality({k \in DOMAIN items : items[k].kind = "article"})

\* ArticleStorePipeline.from_crawler: <<>> when it raises ValueError, else
\* the pipeline object
from_crawler(storage_manager, run_id) ==
    IF storage_manager = None \/ run_id = NoRunId THEN <<>>
    ELSE <<[storage_manager |-> storage_manager, ingestion_run_id |-> run_id]>>

\* the items of a callback go through the pipeline of the spider's
\* crawler, built by from_crawler from the module global and the setting;
\* without a pipeline nothing is stored
pipeline_items(table, items, spider_name) ==
    LET pipeline == from_crawler(GLOBAL_STORAGE_MANAGER, settings_run_id)
    IN  IF pipeline = <<>> THEN table
        ELSE process_items(table, items, spider_name,
                           pipeline[1].ingestion_run_id)

\* Finish with a failed request closing the spider
Finish_Abort(s, i, result, via) ==
    /\ cand' = [cand EXCEPT ![s][i] =
                  [@ EXCEPT !.st = "done", !.via = via,
                            !.emitted = Articles(result[2])]]
    /\ articles' = pipeline_items(articles, result[2], scrapers[s])
    /\ feed' = IF via = "errback"
               THEN [feed EXCEPT ![s].pc = "done"]
               ELSE feed
    /\ UNCHANGED <<pipe, config, runPc, ingestion_run_id, summary, ops,
                   lastEntry, opUpdates>>

\* the request of candidate i ends with a call of the callback or of the
\* errback; the items it yields go through the pipeline as they are yielded
Finish(s, i, result, via) ==
    /\ cand' = [cand EXCEPT ![s][i] =
                  [@ EXCEPT !.st = "done", !.via = via,
                            !.emitted = Articles(result[2])]]
    /\ articles' = pipeline_items(articles, result[2], scrapers[s])
    /\ UNCHANGED <<pipe, config, runPc, ingestion_run_id, summary, ops, feed,
                   lastEntry, opUpdates>>

\* the response arrives: the spider's parse callback runs
ParseArticle(s, i) ==
    /\ runPc = "crawling"
    /\ cand[s][i].st = "fetching"
    /\ \E page \in Pages :
         Finish(s, i, Parse(scrapers[s], cand[s][i].article, page),
                "callback")

\* the request fails: the spider's handle_error errback runs
FetchFails(s, i) ==
    /\ runPc = "crawling"
    /\ cand[s][i].st = "fetching"
    /\ \E failure_type \in FailureTypes :
         Finish(s, i, HandleError(scrapers[s], cand[s][i].article,
                                  failure_type), "errback")

Next ==
    \/ RunCreate
    \/ RunSchedule
    \/ RunScheduleRaises
    \/ RunCrawlRaises
    \/ RunCrawlReturns
    \/ \E s \in DOMAIN scrapers : FeedParseEntry(s)
    \/ \E s \in DOMAIN scrapers : FeedEnd(s)
    \/ \E s \in DOMAIN scrapers : \E i \in DOMAIN cand[s] : ParseArticle(s, i)
    \/ \E s \in DOMAIN scrapers : \E i \in DOMAIN cand[s] : FetchFails(s, i)

Spec == Init /\ [][Next]_vars

\* --------------------------------------------- process_item on its own
\* the items a spider can hand to the pipeline
PipeItems ==
    {Item([title |-> t, url_domain |-> d, published_date |-> 19723,
           html_len |-> l[1], text_len |-> l[2],
           ingestion_metadata |-> {"scraper_name", "validation_result"},
           ingestion_error_status |-> e,
           ingestion_error_message |-> IF e = None THEN None ELSE "message"]) :
        t \in {"A", "B"}, d \in {"d1", "d2"}, l \in Lens \cup {<<0, 0>>},
        e \in {None, "content_blocked", "captcha_detected"}}
    \cup {[kind |-> "error_info", error_type |-> "failure",
            article_title |-> "A"]}

\* a run record exists and the pipeline was built with its id
InitStore ==
    /\ scrapers \in [1..1 -> SCRAPER_CLASS_MAP]
    /\ limit_date = NoDate
    /\ articles_limit = NoLimit
    /\ runPc = "crawling"
    /\ articles \in PriorArticles
    /\ ops = (IF articles = <<>> THEN <<>> ELSE <<PriorOp(articles)>>)
             \o <<[status |-> "running", end_time |-> "start_time",
                   num_articles_processed |-> 0, num_errors |-> 0]>>
    /\ ingestion_run_id = Len(ops)
    /\ summary = [crawlers_run |-> 1, errors |-> <<>>]
    /\ feed = [s \in DOMAIN scrapers |->
                 [pc |-> "done", pos |-> 0, processed_counter |-> 0]]
    /\ lastEntry = <<>>
    /\ cand = [s \in DOMAIN scrapers |-> <<>>]
    /\ calls = <<>>
    /\ feedDoc = <<>>
    /\ opUpdates = 0
    /\ settings_run_id = ingestion_run_id
    /\ GLOBAL_STORAGE_MANAGER = "storage_manager"

InitPipe == InitStore /\ writers = <<>>

\* one call of process_item, from its first line to its return
ProcessItem ==
    /\ Len(calls) < MaxCalls
    /\ \E item \in PipeItems :
         /\ articles' = process_item(articles, item, scrapers[1],
                                     ingestion_run_id)
         /\ calls' = Append(calls, [item |-> item, before |-> articles])
    /\ UNCHANGED <<config, runPc, ingestion_run_id, summary, ops, feed,
                   lastEntry, cand, writers, opUpdates>>

SpecPipe == InitPipe /\ [][ProcessItem]_vars

\* ---------------------------------- process_item calls that interleave
\* the items of the interleaved persist calls
ConcItems ==
    {item \in PipeItems :
        /\ item.kind = "article"
        /\ item.url_domain = "d1"
        /\ <<item.html_len, item.text_len>> \in {<<0, 0>>, <<10000, 465>>}
        /\ item.ingestion_error_status \in {None, "content_blocked"}}

InitConc ==
    /\ InitStore
    /\ writers = [w \in 1..NumWriters |-> [pc |-> "idle", item |-> <<>>]]

\* process_item, lines 78-88: the existence query and the early return
WriterCheck(w) ==
    /\ writers[w].pc = "idle"
    /\ \E item \in ConcItems :
         writers' = [writers EXCEPT ![w] =
            [pc |-> IF get_article_by_domain_and_title(articles,
                           item.url_domain, item.title)
                    THEN "returned" ELSE "checked",
             item |-> item]]
    /\ UNCHANGED <<config, runPc, ingestion_run_id, summary, ops, articles,
                   feed, lastEntry, cand, calls, opUpdates>>

\* process_item, lines 90-119: the row is built and add_article stores it
WriterInsert(w) ==
    /\ writers[w].pc = "checked"
    /\ articles' = add_article(articles,
                       ArticleDB(writers[w].item, scrapers[1],
                                 ingestion_run_id))
    /\ writers' = [writers EXCEPT ![w].pc = "returned"]
    /\ UNCHANGED <<config, runPc, ingestion_run_id, summary, ops, feed,
                   lastEntry, cand, calls, opUpdates>>

NextConc ==
    \/ \E w \in DOMAIN writers : WriterCheck(w)
    \/ \E w \in DOMAIN writers : WriterInsert(w)

SpecConc == InitConc /\ [][NextConc]_vars

\* ------------------------------------------- runs over a given feed
\* two unique entries, a duplicate of the first and an entry whose article
\* URL returns HTTP 404
FeedWithDuplicateAnd404 ==
    <<Entry("A", "http://d1/a", "2024-01-01"),
      Entry("B", "http://d1/a", "2024-01-01"),
      Entry("A", "http://d1/a", "2024-01-01"),
      Entry("C", "http://d3/gone", "2024-01-01")>>

\* every entry is older than the threshold
FeedAllOld ==
    <<Entry("A", "http://d1/a", "2023-12-31"),
      Entry("B", "http://d1/a", "2023-12-31")>>

\* a page that passes validation, without CAPTCHA, of sufficient length
GoodPage ==
    [has_page |-> TRUE, valid |-> TRUE, captcha |-> FALSE, raises |-> "none",
     html_len |-> MIN_HTML_LENGTH, text_len |-> MIN_TEXT_LENGTH]

InitScenario ==
    /\ scrapers \in [1..1 -> SCRAPER_CLASS_MAP]
    /\ limit_date = parse_date("2024-01-01")
    /\ articles_limit = NoLimit
    /\ runPc = "init"
    /\ ingestion_run_id = 0
    /\ summary = [crawlers_run |-> 0, errors |-> <<>>]
    /\ articles = <<>>
    /\ ops = <<>>
    /\ feed = [s \in DOMAIN scrapers |->
                 [pc |-> "idle", pos |-> 0, processed_counter |-> 0]]
    /\ lastEntry = <<>>
    /\ cand = [s \in DOMAIN scrapers |-> <<>>]
    /\ calls = <<>>
    /\ writers = <<>>
    /\ feedDoc \in {FeedWithDuplicateAnd404, FeedAllOld}
    /\ opUpdates = 0
    /\ settings_run_id = GeneratedRunId
    /\ GLOBAL_STORAGE_MANAGER = None

\* the feed callback handles the next entry of the feed document
ScenarioFeedEntry(s) ==
    /\ runPc = "crawling"
    /\ feed[s].pc = "parsing"
    /\ feed[s].pos < Len(feedDoc)
    /\ ~check_limit(s)
    /\ ParseEntry(s, feedDoc[feed[s].pos + 1])
    /\ UNCHANGED <<pipe, config, runPc, ingestion_run_id, summary, ops, articles,
                   opUpdates>>

\* the loop over feed.entries is through
ScenarioFeedEnd(s) ==
    /\ feed[s].pos = Len(feedDoc)
    /\ FeedEnd(s)

\* the article request ends: HTTP 404 for the article on d3, which goes to
\* the errback as HttpError, a good page for the others
ScenarioFetch(s, i) ==
    /\ runPc = "crawling"
    /\ cand[s][i].st = "fetching"
    /\ IF cand[s][i].article.url_domain = "d3"
       THEN Finish(s, i, HandleError(scrapers[s], cand[s][i].article,
                      "<class 'scrapy.spidermiddlewares.httperror.HttpError'>"),
                   "errback")
       ELSE Finish(s, i, Parse(scrapers[s], cand[s][i].article, GoodPage),
                   "callback")

NextScenario ==
    \/ RunCreate
    \/ RunSchedule
    \/ RunCrawlReturns
    \/ \E s \in DOMAIN scrapers : ScenarioFeedEntry(s)
    \/ \E s \in DOMAIN scrapers : ScenarioFeedEnd(s)
    \/ \E s \in DOMAIN scrapers : \E i \in DOMAIN cand[s] : ScenarioFetch(s, i)

SpecScenario == InitScenario /\ [][NextScenario]_vars

\* --------------------------------------------- runs over several feeds
\* a feed document: parses is FALSE when feedparser.parse raises on it
FeedDoc(parses, entries) == [parses |-> parses, entries |-> entries]

\* well-formed entries mixed with entries without title, without url, too
\* old and with a published string no format matches
MixedEntries ==
    <<Entry("", "http://d1/a", "2024-01-01"),
      Entry("A", "http://d1/a", "2024-01-01"),
      Entry("B", "", "2024-01-01"),
      Entry("A", "http://d1/a", "2023-12-31"),
      Entry("B", "http://d1/a", "not a date"),
      Entry("A", "http://d2/a", "2024-01-01")>>

\* a document that does not parse, one without entries, and good ones
FeedDocs ==
    {FeedDoc(FALSE, <<>>), FeedDoc(TRUE, <<>>), FeedDoc(TRUE, MixedEntries),
     FeedDoc(TRUE, <<Entry("B", "http://d1/a", "2024-01-01")>>)}

InitFeeds ==
    /\ scrapers \in [{1, 2} -> SCRAPER_CLASS_MAP]
    /\ limit_date \in {parse_date(t) : t \in Thresholds}
    /\ articles_limit = NoLimit
    /\ runPc = "init"
    /\ ingestion_run_id = 0
    /\ summary = [crawlers_run |-> 0, errors |-> <<>>]
    /\ articles = <<>>
    /\ ops = <<>>
    /\ feed = [s \in DOMAIN scrapers |->
                 [pc |-> "idle", pos |-> 0, processed_counter |-> 0]]
    /\ lastEntry = <<>>
    /\ cand = [s \in DOMAIN scrapers |-> <<>>]
    /\ calls = <<>>
    /\ writers = <<>>
    /\ feedDoc \in [{1, 2} -> FeedDocs]
    /\ opUpdates = 0
    /\ settings_run_id = GeneratedRunId
    /\ GLOBAL_STORAGE_MANAGER = None

\* the feed callback of feed s handles the next entry of its document
FeedsParseEntry(s) ==
    /\ runPc = "crawling"
    /\ feed[s].pc = "parsing"
    /\ feedDoc[s].parses
    /\ feed[s].pos < Len(feedDoc[s].entries)
    /\ ~check_limit(s)
    /\ ParseEntry(s, feedDoc[s].entries[feed[s].pos + 1])
    /\ UNCHANGED <<pipe, config, runPc, ingestion_run_id, summary, ops, articles,
                   opUpdates>>

\* the feed callback of feed s returns: feedparser.parse raised (lines
\* 121-122), the document has no entries (lines 29-31) or the loop is through
FeedsEnd(s) ==
    /\ ~feedDoc[s].parses \/ feed[s].pos = Len(feedDoc[s].entries)
    /\ FeedEnd(s)

NextFeeds ==
    \/ RunCreate
    \/ RunSchedule
    \/ RunCrawlReturns
    \/ \E s \in DOMAIN scrapers : FeedsParseEntry(s)
    \/ \E s \in DOMAIN scrapers : FeedsEnd(s)
    \/ \E s \in DOMAIN scrapers : \E i \in DOMAIN cand[s] : ScenarioFetch(s, i)

SpecFeeds == InitFeeds /\ [][NextFeeds]_vars

\* ------------------------------------- article callbacks on their own
\* the candidates whose request ends: A/d1 is stored already when storage
\* holds the rows of the earlier run
ParseArticles ==
    {ScrapedArticle("A", d, 19723) : d \in {"d1", "d2"}}

\* the fetched pages, with those whose extracted text is empty
ParsePages ==
    Pages \cup
    {[has_page |-> h, valid |-> v, captcha |-> FALSE, raises |-> "none",
      html_len |-> 10000, text_len |-> 0] : h \in BOOLEAN, v \in BOOLEAN}

\* the response of an article request arrives: parse runs and the items it
\* yields go through process_item
CallParse ==
    /\ Len(calls) < MaxCalls
    /\ \E article \in ParseArticles, page \in ParsePages :
         LET result == Parse(scrapers[1], article, page)
         IN  /\ articles' = process_items(articles, result[2], scrapers[1],
                                          ingestion_run_id)
             /\ calls' = Append(calls,
                   [op |-> "parse", page |-> <<page>>, failure |-> None,
                    result |-> result[1], items |-> result[2],
                    page_calls |-> PageCalls(scrapers[1], page),
                    before |-> articles])
    /\ UNCHANGED <<config, runPc, ingestion_run_id, summary, ops, feed,
                   lastEntry, cand, writers, opUpdates>>

\* the article request fails: handle_error runs
CallHandleError ==
    /\ Len(calls) < MaxCalls
    /\ \E article \in ParseArticles, failure_type \in FailureTypes :
         LET result == HandleError(scrapers[1], article, failure_type)
         IN  /\ articles' = process_items(articles, result[2], scrapers[1],
                                          ingestion_run_id)
             /\ calls' = Append(calls,
                   [op |-> "handle_error", page |-> <<>>,
                    failure |-> failure_type,
                    result |-> result[1], items |-> result[2],
                    page_calls |-> <<>>,
                    before |-> articles])
    /\ UNCHANGED <<config, runPc, ingestion_run_id, summary, ops, feed,
                   lastEntry, cand, writers, opUpdates>>

NextParse ==
    \/ CallParse
    \/ CallHandleError

SpecParse == InitPipe /\ [][NextParse]_vars

\* ----------------------------------------------------- ContentValidator
\* html_content is a sequence of lines; a pattern of the validator matches
\* within one line ("." does not match the newline), and each line below
\* is matched as a whole by at most one pattern of each list.
WhiteSpace == " "
PlainText == "one hundred characters of article text"
Lines ==
    {WhiteSpace, PlainText, "captcha", "CAPTCHA", "Access Denied",
     "cloudflare", "checking your browser", "javascript", "enable",
     "<title>Denied</title>", "404 error", "<html></html>", "redirect"}

Contents == UNION {[1..n -> Lines] : n \in 0..MaxLines}

\* the orders set() can hand the distinct matches to join in
LineOrder ==
    <<"captcha", "CAPTCHA", "Access Denied", "cloudflare",
      "checking your browser", "404 error", "redirect">>
Reverse(seq) == [i \in 1..Len(seq) |-> seq[Len(seq) + 1 - i]]
Orders == {LineOrder, Reverse(LineOrder)}

\* the lower-case text the patterns of each list match among Lines
ANTI_BOT_PATTERNS ==
    {"captcha", "access denied", "cloudflare", "checking your browser"}
EMPTY_CONTENT_PATTERNS == {"<html></html>"}
ERROR_PAGE_PATTERNS == {"404 error"}
REDIRECT_PATTERNS == {"redirect"}

\* str.lower, which re.IGNORECASE applies to both sides of a match
lower(line) ==
    CASE line = "CAPTCHA" -> "captcha"
      [] line = "Access Denied" -> "access denied"
      [] line = "<title>Denied</title>" -> "<title>denied</title>"
      [] OTHER -> line

\* len() of one line
LineLen(line) ==
    CASE line = WhiteSpace -> 1
      [] line = PlainText -> MIN_CONTENT_LENGTH
      [] line \in {"captcha", "CAPTCHA"} -> 7
      [] line = "Access Denied" -> 13
      [] line = "cloudflare" -> 10
      [] line = "checking your browser" -> 21
      [] line = "javascript" -> 10
      [] line = "enable" -> 6
      [] line = "<title>Denied</title>" -> 21
      [] line = "404 error" -> 9
      [] line = "<html></html>" -> 13
      [] line = "redirect" -> 8

\* len(html_content): the lines and the newlines between them
RECURSIVE len(_)
len(html_content) ==
    IF html_content = <<>> THEN 0
    ELSE IF Len(html_content) = 1 THEN LineLen(Head(html_content))
    ELSE LineLen(Head(html_content)) + 1 + len(Tail(html_content))

RECURSIVE lstrip(_)
lstrip(html_content) ==
    IF html_content = <<>> THEN <<>>
    ELSE IF Head(html_content) = WhiteSpace THEN lstrip(Tail(html_content))
    ELSE html_content

\* str.strip that removes nothing
strip_Identity(html_content) == html_content

\* str.strip: the content without leading and trailing whitespace
strip(html_content) == Reverse(lstrip(Reverse(lstrip(html_content))))

\* regex.findall: the matched text, as it stands in the content, in order
findall(patterns, html_content) ==
    SelectSeq(html_content, LAMBDA line : lower(line) \in patterns)

\* ', '.join(matches) without set()
join_set_List(matches, order) == matches

\* ', '.join(set(matches)): each distinct match once, in the order of the set
join_set(matches, order) ==
    SelectSeq(order, LAMBDA line : \E i \in DOMAIN matches : matches[i] = line)

\* "text" in html_content.lower()
Contains(html_content, text) ==
    \E i \in DOMAIN html_content : lower(html_content[i]) = text

Issue(label, terms) == [label |-> label, terms |-> terms]

\* _check_blocking_indicators that takes either word for the challenge
_check_blocking_indicators_Either(html_content) ==
    (IF Contains(html_content, "cloudflare")
        /\ Contains(html_content, "checking your browser")
     THEN <<Issue("Cloudflare DDoS protection detected", <<>>)>> ELSE <<>>)
    \o
    (IF Contains(html_content, "javascript") \/ Contains(html_content, "enable")
     THEN <<Issue("JavaScript challenge detected", <<>>)>> ELSE <<>>)
    \o
    (IF Contains(html_content, "<title>denied</title>")
     THEN <<Issue("Suspicious page title", <<"Denied">>)>> ELSE <<>>)

\* ContentValidator._check_blocking_indicators; no line of Lines carries a
\* meta description
_check_blocking_indicators(html_content) ==
    (IF Contains(html_content, "cloudflare")
        /\ Contains(html_content, "checking your browser")
     THEN <<Issue("Cloudflare DDoS protection detected", <<>>)>> ELSE <<>>)
    \o
    (IF Contains(html_content, "javascript") /\ Contains(html_content, "enable")
     THEN <<Issue("JavaScript challenge detected", <<>>)>> ELSE <<>>)
    \o
    (IF Contains(html_content, "<title>denied</title>")
     THEN <<Issue("Suspicious page title", <<"Denied">>)>> ELSE <<>>)

\* validate_content where the warning about short content invalidates
validate_content_ShortInvalid(html_content, status_code, order) ==
    LET anti_bot_matches == findall(ANTI_BOT_PATTERNS, html_content)
        error_matches == findall(ERROR_PAGE_PATTERNS, html_content)
        redirect_matches == findall(REDIRECT_PATTERNS, html_content)
        blocking_indicators == _check_blocking_indicators(html_content)
        issues ==
            (IF anti_bot_matches # <<>>
             THEN <<Issue("Anti-bot detection",
                          join_set(anti_bot_matches, order))>> ELSE <<>>)
            \o (IF findall(EMPTY_CONTENT_PATTERNS, html_content) # <<>>
                THEN <<Issue("Empty or minimal HTML content", <<>>)>>
                ELSE <<>>)
            \o (IF error_matches # <<>>
                THEN <<Issue("Error page detected",
                             join_set(error_matches, order))>> ELSE <<>>)
            \o blocking_indicators
        warnings ==
            (IF redirect_matches # <<>>
             THEN <<Issue("Suspicious redirect patterns",
                          join_set(redirect_matches, order))>> ELSE <<>>)
            \o (IF len(html_content) < MIN_CONTENT_LENGTH
                THEN <<Issue("Very short content (potential blocking)",
                             <<>>)>>
                ELSE <<>>)
        result(valid, i, w) ==
            [is_valid |-> valid, issues |-> i, warnings |-> w,
             content_length |-> len(html_content),
             status_code |-> status_code]
    IN  IF html_content = <<>> \/ strip(html_content) = <<>>
        THEN <<FALSE, result(FALSE, <<Issue("Empty content", <<>>)>>, <<>>)>>
        ELSE LET valid == issues = <<>>
                              /\ len(html_content) >= MIN_CONTENT_LENGTH
             IN  <<valid, result(valid, issues, warnings)>>

\* validate_content where a redirect match invalidates
validate_content_RedirectInvalid(html_content, status_code, order) ==
    LET anti_bot_matches == findall(ANTI_BOT_PATTERNS, html_content)
        error_matches == findall(ERROR_PAGE_PATTERNS, html_content)
        redirect_matches == findall(REDIRECT_PATTERNS, html_content)
        blocking_indicators == _check_blocking_indicators(html_content)
        issues ==
            (IF anti_bot_matches # <<>>
             THEN <<Issue("Anti-bot detection",
                          join_set(anti_bot_matches, order))>> ELSE <<>>)
            \o (IF findall(EMPTY_CONTENT_PATTERNS, html_content) # <<>>
                THEN <<Issue("Empty or minimal HTML content", <<>>)>>
                ELSE <<>>)
            \o (IF error_matches # <<>>
                THEN <<Issue("Error page detected",
                             join_set(error_matches, order))>> ELSE <<>>)
            \o blocking_indicators
        warnings ==
            (IF redirect_matches # <<>>
             THEN <<Issue("Suspicious redirect patterns",
                          join_set(redirect_matches, order))>> ELSE <<>>)
            \o (IF len(html_content) < MIN_CONTENT_LENGTH
                THEN <<Issue("Very short content (potential blocking)",
                             <<>>)>>
                ELSE <<>>)
        result(valid, i, w) ==
            [is_valid |-> valid, issues |-> i, warnings |-> w,
             content_length |-> len(html_content),
             status_code |-> status_code]
    IN  IF html_content = <<>> \/ strip(html_content) = <<>>
        THEN <<FALSE, result(FALSE, <<Issue("Empty content", <<>>)>>, <<>>)>>
        ELSE LET valid == issues = <<>>
                              /\ redirect_matches = <<>>
             IN  <<valid, result(valid, issues, warnings)>>

\* validate_content that returns at the first check that records an issue
validate_content_ShortCircuit(html_content, status_code, order) ==
    LET anti_bot_matches == findall(ANTI_BOT_PATTERNS, html_content)
        error_matches == findall(ERROR_PAGE_PATTERNS, html_content)
        redirect_matches == findall(REDIRECT_PATTERNS, html_content)
        blocking_indicators == _check_blocking_indicators(html_content)
        issues ==
            (IF anti_bot_matches # <<>>
             THEN <<Issue("Anti-bot detection",
                          join_set(anti_bot_matches, order))>> ELSE <<>>)
            \o (IF findall(EMPTY_CONTENT_PATTERNS, html_content) # <<>>
                THEN <<Issue("Empty or minimal HTML content", <<>>)>>
                ELSE <<>>)
            \o (IF error_matches # <<>>
                THEN <<Issue("Error page detected",
                             join_set(error_matches, order))>> ELSE <<>>)
            \o blocking_indicators
        warnings ==
            (IF redirect_matches # <<>>
             THEN <<Issue("Suspicious redirect patterns",
                          join_set(redirect_matches, order))>> ELSE <<>>)
            \o (IF len(html_content) < MIN_CONTENT_LENGTH
                THEN <<Issue("Very short content (potential blocking)",
                             <<>>)>>
                ELSE <<>>)
        result(valid, i, w) ==
            [is_valid |-> valid, issues |-> i, warnings |-> w,
             content_length |-> len(html_content),
             status_code |-> status_code]
    IN  IF html_content = <<>> \/ strip(html_content) = <<>>
        THEN <<FALSE, result(FALSE, <<Issue("Empty content", <<>>)>>, <<>>)>>
        ELSE IF issues # <<>>
        THEN <<FALSE, result(FALSE, <<Head(issues)>>, <<>>)>>
        ELSE <<TRUE, result(TRUE, issues, warnings)>>

\* ContentValidator.validate_content: <<is_valid, validation_result>>.
\* is_valid is set to False at each place that appends an issue.
validate_content(html_content, status_code, order) ==
    LET anti_bot_matches == findall(ANTI_BOT_PATTERNS, html_content)
        error_matches == findall(ERROR_PAGE_PATTERNS, html_content)
        redirect_matches == findall(REDIRECT_PATTERNS, html_content)
        blocking_indicators == _check_blocking_indicators(html_content)
        empty_pattern == findall(EMPTY_CONTENT_PATTERNS, html_content) # <<>>
        issues ==
            (IF anti_bot_matches # <<>>
             THEN <<Issue("Anti-bot detection",
                          join_set(anti_bot_matches, order))>> ELSE <<>>)
            \o (IF empty_pattern
                THEN <<Issue("Empty or minimal HTML content", <<>>)>>
                ELSE <<>>)
            \o (IF error_matches # <<>>
                THEN <<Issue("Error page detected",
                             join_set(error_matches, order))>> ELSE <<>>)
            \o blocking_indicators
        warnings ==
            (IF redirect_matches # <<>>
             THEN <<Issue("Suspicious redirect patterns",
                          join_set(redirect_matches, order))>> ELSE <<>>)
            \o (IF len(html_content) < MIN_CONTENT_LENGTH
                THEN <<Issue("Very short content (potential blocking)",
                             <<>>)>>
                ELSE <<>>)
        result(valid, i, w) ==
            [is_valid |-> valid, issues |-> i, warnings |-> w,
             content_length |-> len(html_content),
             status_code |-> status_code]
    IN  IF html_content = <<>> \/ strip(html_content) = <<>>
        THEN <<FALSE, result(FALSE, <<Issue("Empty content", <<>>)>>, <<>>)>>
        ELSE LET valid == ~( \/ anti_bot_matches # <<>>
                             \/ empty_pattern
                             \/ error_matches # <<>>
                             \/ blocking_indicators # <<>> )
             IN  <<valid, result(valid, issues, warnings)>>

\* a validator is created; no run, no storage
InitValidate ==
    /\ scrapers = <<>>
    /\ limit_date = NoDate
    /\ articles_limit = NoLimit
    /\ runPc = "init"
    /\ ingestion_run_id = 0
    /\ summary = [crawlers_run |-> 0, errors |-> <<>>]
    /\ articles = <<>>
    /\ ops = <<>>
    /\ feed = <<>>
    /\ lastEntry = <<>>
    /\ cand = <<>>
    /\ calls = <<>>
    /\ writers = <<>>
    /\ feedDoc = <<>>
    /\ opUpdates = 0
    /\ settings_run_id = GeneratedRunId
    /\ GLOBAL_STORAGE_MANAGER = None

\* one call of validate_content on a fetched page
Validate ==
    /\ calls = <<>>
    /\ \E html_content \in Contents, order \in Orders :
         LET r == validate_content(html_content, 200, order)
         IN  calls' = <<[op |-> "validate_content",
                         html_content |-> html_content,
                         is_valid |-> r[1], validation_result |-> r[2]]>>
    /\ UNCHANGED <<config, runPc, ingestion_run_id, summary, ops, articles,
                   feed, lastEntry, cand, writers, opUpdates>>

NextValidate == Validate

SpecValidate == InitValidate /\ [][NextValidate]_vars

\* ------------------------------------------------------ ConfigLoader.load
\* the scraper types a configuration file can name
RawTypes == SCRAPER_CLASS_MAP \cup {"invalid_type"}
RawConfigs == UNION {[1..n -> RawTypes] : n \in 0..MaxRawScrapers}

\* a ScraperConfig whose type field takes any string
ScraperConfig_Any(type) == TRUE

\* ScraperConfig: the type field is a Literal of the two scraper types
ScraperConfig(type) ==
    type \in {"playwright_rss_article_scraper",
              "stealth_playwright_rss_article_scraper"}

\* the configuration file is read; no config object exists yet
InitLoad ==
    /\ scrapers \in RawConfigs
    /\ limit_date \in {parse_date(t) : t \in Thresholds}
    /\ articles_limit \in Limits
    /\ runPc = "unloaded"
    /\ ingestion_run_id = 0
    /\ summary = [crawlers_run |-> 0, errors |-> <<>>]
    /\ articles \in PriorArticles
    /\ ops = IF articles = <<>> THEN <<>> ELSE <<PriorOp(articles)>>
    /\ feed = [s \in DOMAIN scrapers |->
                 [pc |-> "idle", pos |-> 0, processed_counter |-> 0]]
    /\ lastEntry = <<>>
    /\ cand = [s \in DOMAIN scrapers |-> <<>>]
    /\ calls = <<>>
    /\ writers = <<>>
    /\ feedDoc = <<>>
    /\ opUpdates = 0
    /\ settings_run_id = GeneratedRunId
    /\ GLOBAL_STORAGE_MANAGER = None

\* ConfigLoader.load: IngestionConfig(**config_dict) validates every
\* scraper entry and raises ValidationError, or the runner is built
ConfigLoad ==
    /\ runPc = "unloaded"
    /\ runPc' = IF \A s \in DOMAIN scrapers : ScraperConfig(scrapers[s])
                THEN "init" ELSE "rejected"
    /\ UNCHANGED <<pipe, config, ingestion_run_id, summary, ops, articles,
                   feed, lastEntry, cand, opUpdates>>

NextLoad ==
    \/ ConfigLoad
    \/ RunCreate
    \/ RunSchedule
    \/ \E s \in DOMAIN scrapers : FeedEnd(s)
    \/ RunCrawlReturns

SpecLoad == InitLoad /\ [][NextLoad]_vars

\* ================================================================ claims
\* the rows of a table that carry a (url_domain, title) key
RowsWithKey(table, url_domain, title) ==
    {i \in 1..Len(table) :
        table[i].url_domain = url_domain /\ table[i].title = title}

\* SpecPipe: the articles table when the k-th process_item call returned
After(k) == IF k < Len(calls) THEN calls[k + 1].before ELSE articles

\* C1: every candidate whose article request was scheduled has yielded
\* exactly one article item once its callback or errback has run, in the
\* Playwright and in the stealth variant: none is dropped, none is
\* emitted twice.
C1_ExactlyOneOutcome ==
    \A s \in DOMAIN cand : \A i \in DOMAIN cand[s] :
        cand[s][i].st = "done" => cand[s][i].emitted = 1

\* C2: when run has finalized, the persisted status is the function of the
\* stored counts: failed for no article, else completed for no error, else
\* partial for fewer errors than articles, else failed.
C2_StatusFromCounts ==
    runPc = "done" =>
        LET op == ops[ingestion_run_id]
        IN  op.status =
              IF op.num_articles_processed = 0 THEN "failed"
              ELSE IF op.num_errors = 0 THEN "completed"
              ELSE IF op.num_errors < op.num_articles_processed THEN "partial"
              ELSE "failed"

\* C3: however run ends once the run record exists (normal completion, no
\* scraper to run, an exception while scheduling or crawling), the record
\* has its end_time written and its status is no longer "running".
C3_FinalizeAlways ==
    runPc = "done" =>
        /\ ops[ingestion_run_id].status # "running"
        /\ ops[ingestion_run_id].end_time = "now"

\* C3 witness: the run ended through the exception path with the crawl
\* part-way, articles of this run already stored
C3_Witness ==
    /\ runPc = "done"
    /\ summary.errors # <<>>
    /\ \E i \in DOMAIN articles :
          articles[i].ingestion_run_id = ingestion_run_id

\* C4: the counts written at finalization are the numbers of stored
\* articles of this run id and of those with a non-null error status, also
\* when candidates failed or the crawl aborted part-way.
C4_CountsFromStorage ==
    runPc = "done" =>
        /\ ops[ingestion_run_id].num_articles_processed =
              Cardinality({i \in DOMAIN articles :
                  articles[i].ingestion_run_id = ingestion_run_id})
        /\ ops[ingestion_run_id].num_errors =
              Cardinality({i \in DOMAIN articles :
                  /\ articles[i].ingestion_run_id = ingestion_run_id
                  /\ articles[i].ingestion_error_status # None})

\* C4 witness: an aborted run over a storage that holds an earlier run's
\* rows, with an error row of its own
C4_Witness ==
    /\ runPc = "done"
    /\ summary.errors # <<>>
    /\ ops[ingestion_run_id].num_articles_processed = 1
    /\ ops[ingestion_run_id].num_errors = 1
    /\ Len(articles) = 3

\* C5: two process_item calls, one after the other, with items of the same
\* (url_domain, title) leave exactly one stored article with that key, and
\* the second call inserts nothing.
C5_Idempotent ==
    \A j \in DOMAIN calls : \A k \in DOMAIN calls :
        ( /\ j < k
          /\ calls[j].item.kind = "article"
          /\ calls[k].item.kind = "article"
          /\ calls[j].item.url_domain = calls[k].item.url_domain
          /\ calls[j].item.title = calls[k].item.title )
        => /\ Cardinality(RowsWithKey(After(k), calls[k].item.url_domain,
                                      calls[k].item.title)) = 1
           /\ Len(After(k)) = Len(calls[k].before)

\* C5 witness: two calls with the same key, the first of which found the
\* key absent and inserted
C5_Witness ==
    /\ Len(calls) = 2
    /\ calls[1].item.kind = "article"
    /\ calls[2].item.kind = "article"
    /\ calls[1].item.url_domain = calls[2].item.url_domain
    /\ calls[1].item.title = calls[2].item.title
    /\ calls[1].item # calls[2].item
    /\ RowsWithKey(calls[1].before, calls[1].item.url_domain,
                   calls[1].item.title) = {}
    /\ Len(articles) = Len(calls[1].before) + 1

\* C6: a process_item call that finds a stored article with the item's
\* (url_domain, title), of this run or of an earlier one, leaves the
\* articles table as it was: nothing updated, nothing added.
C6_DuplicateLeavesStorage ==
    \A k \in DOMAIN calls :
        ( /\ calls[k].item.kind = "article"
          /\ RowsWithKey(calls[k].before, calls[k].item.url_domain,
                         calls[k].item.title) # {} )
        => After(k) = calls[k].before

\* C6 witness: a call whose key is held by a row of the earlier run, with
\* content that differs from that row
C6_Witness ==
    \E k \in DOMAIN calls :
        /\ calls[k].item.kind = "article"
        /\ calls[k].item.ingestion_error_status = "captcha_detected"
        /\ \E i \in RowsWithKey(calls[k].before, calls[k].item.url_domain,
                                  calls[k].item.title) :
              calls[k].before[i].ingestion_run_id # ingestion_run_id
        /\ After(k) = calls[k].before

\* C7: the existence check and the insert of process_item are two steps
\* and storage has no uniqueness constraint: the insert of a call whose
\* check found nothing adds its row whatever was stored in between.
C7_InsertUnconditional ==
    [][\A w \in DOMAIN writers :
          (writers[w].pc = "checked" /\ writers'[w].pc = "returned")
          => Len(articles') = Len(articles) + 1]_vars

\* C7 witness: two stored articles of this run with one (url_domain, title)
C7_Witness ==
    \E i \in DOMAIN articles : \E j \in DOMAIN articles :
        /\ i < j
        /\ articles[i].url_domain = articles[j].url_domain
        /\ articles[i].title = articles[j].title
        /\ articles[i].ingestion_run_id = ingestion_run_id
        /\ articles[j].ingestion_run_id = ingestion_run_id

\* C8: an item without error status that is no duplicate and whose html or
\* text content is below the minimum length is stored under the current
\* run with status HTML_TOO_SHORT or TEXT_TOO_SHORT.
C8_ShortContentDowngraded ==
    \A k \in DOMAIN calls :
        ( /\ calls[k].item.kind = "article"
          /\ calls[k].item.ingestion_error_status = None
          /\ RowsWithKey(calls[k].before, calls[k].item.url_domain,
                         calls[k].item.title) = {}
          /\ \/ calls[k].item.html_len < MIN_HTML_LENGTH
             \/ calls[k].item.text_len < MIN_TEXT_LENGTH )
        => /\ Len(After(k)) = Len(calls[k].before) + 1
           /\ LET row == After(k)[Len(After(k))]
              IN  /\ row.title = calls[k].item.title
                  /\ row.url_domain = calls[k].item.url_domain
                  /\ row.ingestion_run_id = ingestion_run_id
                  /\ row.ingestion_error_status =
                        IF calls[k].item.html_len < MIN_HTML_LENGTH
                        THEN "HTML_TOO_SHORT" ELSE "TEXT_TOO_SHORT"

\* C8 witness: a call with long enough html and text one character short
C8_Witness ==
    \E k \in DOMAIN calls :
        /\ calls[k].item.kind = "article"
        /\ calls[k].item.ingestion_error_status = None
        /\ calls[k].item.html_len = MIN_HTML_LENGTH
        /\ calls[k].item.text_len = MIN_TEXT_LENGTH - 1
        /\ Len(After(k)) = Len(calls[k].before) + 1

\* C9: every stored article has an error status, or has none and has html
\* and text content of at least the minimum lengths.
C9_StoredArticleInvariant ==
    \A i \in DOMAIN articles :
        \/ articles[i].ingestion_error_status # None
        \/ /\ articles[i].html_len >= MIN_HTML_LENGTH
           /\ articles[i].text_len >= MIN_TEXT_LENGTH

\* C9 witness: the run stored a success and a downgraded article
C9_Witness ==
    /\ \E i \in DOMAIN articles :
          /\ articles[i].ingestion_run_id = ingestion_run_id
          /\ articles[i].ingestion_error_status = None
    /\ \E i \in DOMAIN articles :
          /\ articles[i].ingestion_run_id = ingestion_run_id
          /\ articles[i].ingestion_error_status = "TEXT_TOO_SHORT"

\* C10: a feed entry whose parsed published date is before the configured
\* threshold is never handed to parse_article and yields no record: every
\* scheduled candidate and every article stored by this run is dated at or
\* after the threshold.
C10_OldEntryNeverFetched ==
    limit_date # NoDate =>
        /\ \A k \in DOMAIN lastEntry :
              LET d == parse_date(lastEntry[k].entry.published)
              IN  (d # NoDate /\ d < limit_date)
                  => lastEntry[k].disposition # "dispatched"
        /\ \A s \in DOMAIN cand : \A i \in DOMAIN cand[s] :
              cand[s][i].article.published_date >= limit_date
        /\ \A i \in DOMAIN articles :
              articles[i].ingestion_run_id = ingestion_run_id
              => articles[i].published_date >= limit_date

\* C10 witness: the feed callback skipped an entry as too old while an
\* earlier candidate of the same feed was fetched and stored
C10_Witness ==
    /\ limit_date # NoDate
    /\ \E k \in DOMAIN lastEntry : lastEntry[k].disposition = "old"
    /\ \E i \in DOMAIN articles :
          articles[i].ingestion_run_id = ingestion_run_id

\* SpecParse: the rows the k-th callback call added to the articles table
StoredBy(k) == {After(k)[i] : i \in (Len(calls[k].before) + 1)..Len(After(k))}

\* SpecParse: the k-th call is parse on a Playwright page that carries
\* CAPTCHA markup and whose content() returned
CaptchaCall(k) ==
    /\ calls[k].op = "parse"
    /\ calls[k].page[1].has_page
    /\ calls[k].page[1].captcha
    /\ calls[k].page[1].raises # "content"

\* C11: after a successful fetch of a page that carries CAPTCHA markup, the
\* candidate ends with error status "captcha_detected", whether the content
\* validator passed or failed, in the Playwright and in the stealth variant.
C11_CaptchaForcesStatus ==
    \A k \in DOMAIN calls :
        CaptchaCall(k)
        => calls[k].result.ingestion_error_status = "captcha_detected"

\* SpecParse: the k-th call is parse on a page the validator rejects and on
\* which no CAPTCHA markup is found
BlockedCall(k) ==
    /\ calls[k].op = "parse"
    /\ ~calls[k].page[1].valid
    /\ ~calls[k].page[1].captcha
    /\ calls[k].page[1].raises # "content"

\* C12: after a successful fetch with no CAPTCHA markup, a content validator
\* failure ends the candidate with error status "content_blocked" and the
\* validation message, and the article is yielded to the pipeline with that
\* status.
C12_BlockedEmitted ==
    \A k \in DOMAIN calls :
        BlockedCall(k)
        => \E j \in DOMAIN calls[k].items :
              /\ calls[k].items[j].kind = "article"
              /\ calls[k].items[j].ingestion_error_status = "content_blocked"
              /\ calls[k].items[j].ingestion_error_message
                    \in {"Content validation failed",
                         "Stealth content validation failed"}

\* SpecParse: the k-th call is parse on a page that passed validation and
\* reached text extraction
ExtractCall(k) ==
    /\ calls[k].op = "parse"
    /\ calls[k].page[1].valid
    /\ ~(calls[k].page[1].has_page /\ calls[k].page[1].captcha)
    /\ calls[k].page[1].raises # "content"

C17_CaptchaRecord ==
    \A k \in DOMAIN calls :
        CaptchaCall(k) =>
            \A row \in StoredBy(k) :
                /\ row.ingestion_error_status = "captcha_detected"
                /\ row.html_len = 0
                /\ row.text_len = 0

\* C13: the stealth variant retries a failing fetch: a candidate is ended as
\* an error by the errback only after max_retries attempts have failed, and
\* its attempts never exceed max_retries.
C13_RetryBounded ==
    \A s \in DOMAIN cand : \A i \in DOMAIN cand[s] :
        scrapers[s] = STEALTH =>
            /\ cand[s][i].attempts <= max_retries
            /\ (cand[s][i].st = "done" /\ cand[s][i].via = "errback")
               => cand[s][i].attempts = max_retries

\* C18: the run record is created once and updated exactly once more, by
\* the finally branch, on every path of run, the path where the crawlers
\* raise included; before run ends it is not updated.
C18_UpdatedOnce ==
    /\ runPc = "done" => opUpdates = 1
    /\ runPc # "done" => opUpdates = 0

\* C19: the run record is stored with status "running" and its id is
\* obtained before any scraper is handed to the crawler process and before
\* any feed or article request exists.
C19_RecordBeforeDispatch ==
    LET dispatched == \E s \in DOMAIN scrapers :
                         feed[s].pc # "idle" \/ cand[s] # <<>>
    IN  /\ runPc = "init" => ingestion_run_id = 0 /\ ~dispatched
        /\ runPc = "created"
           => /\ ~dispatched
              /\ ingestion_run_id = Len(ops)
              /\ ingestion_run_id > 0
              /\ ops[ingestion_run_id].status = "running"
        /\ dispatched
           => /\ ingestion_run_id \in DOMAIN ops
              /\ runPc = "crawling"
                 => ops[ingestion_run_id].status = "running"

\* C19 witness: a candidate of this run is being fetched while the record
\* of the run, created after that of an earlier run, is "running"
C19_Witness ==
    /\ runPc = "crawling"
    /\ Len(ops) = 2
    /\ ingestion_run_id = 2
    /\ ops[2].status = "running"
    /\ \E s \in DOMAIN cand : \E i \in DOMAIN cand[s] :
          cand[s][i].st = "fetching"

C15_PartialRun ==
    (feedDoc = FeedWithDuplicateAnd404 /\ runPc = "done")
    => /\ ops[ingestion_run_id].num_articles_processed = 3
       /\ ops[ingestion_run_id].num_errors = 1
       /\ ops[ingestion_run_id].status = "partial"

\* C16: when every candidate of a run is rejected by the date check, no
\* article is stored for the run, num_articles_processed is 0 and the run
\* ends with status "failed".
C16_AllOldRunFails ==
    (feedDoc = FeedAllOld /\ runPc = "done")
    => /\ \A i \in DOMAIN articles :
             articles[i].ingestion_run_id # ingestion_run_id
       /\ ops[ingestion_run_id].num_articles_processed = 0
       /\ ops[ingestion_run_id].status = "failed"

\* SpecFeeds: feed s has a document feedparser parses
Parses(s) == s \in DOMAIN feedDoc /\ feedDoc[s].parses

WellFormed(entries, n) ==
    SelectSeq(SubSeq(entries, 1, n),
              LAMBDA e : /\ e.title # ""
                         /\ e.link # ""
                         /\ parse_date(e.published) # NoDate
                         /\ (limit_date = NoDate
                             \/ parse_date(e.published) >= limit_date))

C24_LimitStopsDispatch ==
    [][\A s \in DOMAIN cand :
          ( /\ articles_limit # NoLimit
            /\ feed[s].processed_counter >= articles_limit )
          => /\ Len(cand'[s]) = Len(cand[s])
             /\ \A i \in DOMAIN cand[s] :
                   cand[s][i].st = "fetching"
                   => /\ cand'[s][i].st \in {"fetching", "done"}
                      /\ ( cand'[s][i].st = "done" /\ cand'[s][i].emitted > 0 )
                         => get_article_by_domain_and_title(articles',
                                cand[s][i].article.url_domain,
                                cand[s][i].article.title)]_vars

\* C24 witness: the limit was reached by the last request handed on, that
\* request ended afterwards and its article is stored under the run
C24_Witness ==
    \E s \in DOMAIN cand :
        /\ articles_limit # NoLimit
        /\ feed[s].processed_counter >= articles_limit
        /\ Len(cand[s]) = articles_limit
        /\ cand[s][Len(cand[s])].st = "done"
        /\ cand[s][Len(cand[s])].emitted > 0
        /\ \E r \in 1..Len(articles) :
              /\ articles[r].ingestion_run_id = ingestion_run_id
              /\ articles[r].title = cand[s][Len(cand[s])].article.title
              /\ articles[r].url_domain
                    = cand[s][Len(cand[s])].article.url_domain

\* C25: when the fetch of an article fails, handle_error emits exactly one
\* article for the candidate, with an error status that is not null, an
\* error message that is not empty and ingestion metadata naming the
\* scraper, and the failure is in storage as an error record.
C25_ErrbackEmitsArticle ==
    \A k \in DOMAIN calls :
        calls[k].op = "handle_error"
        => /\ Len(calls[k].items) = 1
           /\ calls[k].items[1].kind = "article"
           /\ calls[k].items[1].ingestion_error_status = calls[k].failure
           /\ calls[k].items[1].ingestion_error_message \notin {None, ""}
           /\ "scraper_name" \in calls[k].items[1].ingestion_metadata
           /\ ~get_article_by_domain_and_title(calls[k].before,
                  calls[k].result.url_domain, calls[k].result.title)
              => \E row \in StoredBy(k) :
                    /\ row.title = calls[k].result.title
                    /\ row.url_domain = calls[k].result.url_domain
                    /\ row.ingestion_error_status = calls[k].failure

\* C26: every stored article, success or error, names the scraper that
\* produced it under scraper_name of its ingestion metadata, and keeps the
\* diagnostic metadata the scraper set on the item: the validation result
\* of a blocked page, the captcha flag of a probed page.
C26_RowCarriesScraperAndMetadata ==
    \A k \in DOMAIN calls : \A row \in StoredBy(k) :
        /\ row.scraper_name = scrapers[1]
        /\ "scraper_name" \in row.ingestion_metadata
        /\ \E j \in DOMAIN calls[k].items :
              /\ calls[k].items[j].kind = "article"
              /\ calls[k].items[j].title = row.title
              /\ calls[k].items[j].url_domain = row.url_domain
              /\ row.ingestion_metadata
                    = calls[k].items[j].ingestion_metadata \cup {"scraper_name"}
        /\ row.ingestion_error_status = "content_blocked"
           => "validation_result" \in row.ingestion_metadata
        /\ row.ingestion_error_status = "captcha_detected"
           => {"captcha_found=True", "validation_result"}
                 \subseteq row.ingestion_metadata
        /\ ( /\ calls[k].op = "parse"
             /\ calls[k].page[1].has_page
             /\ row.ingestion_error_status = None )
           => {"captcha_found=False", "validation_result"}
                 \subseteq row.ingestion_metadata
        /\ calls[k].op = "handle_error"
           => "error" \in row.ingestion_metadata

\* C26 witness: a success row with the captcha flag and the validation
\* result, and an error row of a blocked page, are stored by two calls
C26_Witness ==
    /\ Len(calls) = 2
    /\ \E row \in StoredBy(1) :
          /\ row.ingestion_error_status = None
          /\ "captcha_found=False" \in row.ingestion_metadata
          /\ "scraper_name" \in row.ingestion_metadata
    /\ \E row \in StoredBy(2) :
          /\ row.ingestion_error_status = "content_blocked"
          /\ "validation_result" \in row.ingestion_metadata

\* C27: every article stored during a run carries the id storage assigned
\* to the run record created at the start of that run, the id finalize
\* counts with; no article is stored under another id, the generated run id
\* of _build_settings included.
C27_RowsCarryRunRecordId ==
    /\ \A r \in 1..Len(articles) :
          /\ articles[r].ingestion_run_id # GeneratedRunId
          /\ articles[r].ingestion_run_id \in DOMAIN ops
          /\ articles[r].ingestion_run_id # ingestion_run_id
             => /\ r <= Len(<<PriorRowA, PriorRowB>>)
                /\ articles[r] = <<PriorRowA, PriorRowB>>[r]
                /\ ops[articles[r].ingestion_run_id] = PriorOp(<<PriorRowA, PriorRowB>>)
    /\ runPc = "done"
       => ops[ingestion_run_id].num_articles_processed
             = Cardinality({r \in 1..Len(articles) :
                              articles[r].ingestion_run_id = ingestion_run_id})

\* C27 witness: a run that follows an earlier run has ended and its
\* article is stored under its own record's id, beside the earlier row
C27_Witness ==
    /\ runPc = "done"
    /\ ingestion_run_id = 2
    /\ \E r \in 1..Len(articles) : articles[r].ingestion_run_id = 1
    /\ \E r \in 1..Len(articles) : articles[r].ingestion_run_id = 2

\* C28: for every input, validate_content returns invalid exactly when the
\* issues list of its result is not empty; the warnings list has no part in
\* the validity.
C28_InvalidIffIssues ==
    \A k \in DOMAIN calls :
        calls[k].op = "validate_content"
        => /\ calls[k].is_valid = calls[k].validation_result.is_valid
           /\ ~calls[k].is_valid <=> calls[k].validation_result.issues # <<>>

\* C28 witness: content with a redirect pattern and under the length of
\* the short-content warning is returned valid with both warnings
C28_Witness ==
    \E k \in DOMAIN calls :
        /\ calls[k].op = "validate_content"
        /\ calls[k].is_valid
        /\ Len(calls[k].validation_result.warnings) = 2
        /\ calls[k].validation_result.issues = <<>>

\* C29: validate_content on empty or whitespace-only content returns
\* invalid with the single issue "Empty content" and returns at once: no
\* other issue and no warning is recorded.
C29_EmptyContent ==
    \A k \in DOMAIN calls :
        ( /\ calls[k].op = "validate_content"
          /\ \A i \in DOMAIN calls[k].html_content :
                calls[k].html_content[i] = WhiteSpace )
        => /\ ~calls[k].is_valid
           /\ ~calls[k].validation_result.is_valid
           /\ calls[k].validation_result.issues
                 = <<Issue("Empty content", <<>>)>>
           /\ calls[k].validation_result.warnings = <<>>

\* C29 witness: whitespace-only content of more than one line was validated
C29_Witness ==
    \E k \in DOMAIN calls :
        /\ calls[k].op = "validate_content"
        /\ calls[k].html_content = <<WhiteSpace, WhiteSpace>>
        /\ calls[k].validation_result.issues = <<Issue("Empty content", <<>>)>>

\* the lines of Lines that a pattern of the anti-bot vocabulary matches
AntiBotLines(html_content) ==
    {html_content[i] : i \in DOMAIN html_content} \cap
    {"captcha", "CAPTCHA", "Access Denied", "cloudflare",
     "checking your browser"}

Has(html_content, lines) ==
    \E i \in DOMAIN html_content : html_content[i] \in lines

\* the content is not empty after strip()
NonEmpty(html_content) ==
    \E i \in DOMAIN html_content : html_content[i] # WhiteSpace

\* the findings of the invalidating checks, each stated on the content
AntiBotFinding(html_content) == AntiBotLines(html_content) # {}
SkeletonFinding(html_content) == Has(html_content, {"<html></html>"})
ErrorPageFinding(html_content) == Has(html_content, {"404 error"})
CloudflareFinding(html_content) ==
    Has(html_content, {"cloudflare"})
    /\ Has(html_content, {"checking your browser"})
JavaScriptFinding(html_content) ==
    Has(html_content, {"javascript"}) /\ Has(html_content, {"enable"})
TitleFinding(html_content) == Has(html_content, {"<title>Denied</title>"})
Invalidating(html_content) ==
    \/ AntiBotFinding(html_content)
    \/ SkeletonFinding(html_content)
    \/ ErrorPageFinding(html_content)
    \/ CloudflareFinding(html_content)
    \/ JavaScriptFinding(html_content)
    \/ TitleFinding(html_content)

\* C31: validate_content on content that is not empty and matches none of
\* the invalidating checks (anti-bot vocabulary, empty skeleton, error page
\* vocabulary, composite blocking indicators) returns valid with an empty
\* issues list.
C31_CleanContentValid ==
    \A k \in DOMAIN calls :
        ( /\ calls[k].op = "validate_content"
          /\ NonEmpty(calls[k].html_content)
          /\ ~Invalidating(calls[k].html_content) )
        => /\ calls[k].is_valid
           /\ calls[k].validation_result.is_valid
           /\ calls[k].validation_result.issues = <<>>

\* C31 witness: article text next to one word of the JavaScript challenge
\* was validated and found valid, without issue or warning
C31_Witness ==
    \E k \in DOMAIN calls :
        /\ calls[k].op = "validate_content"
        /\ calls[k].html_content = <<PlainText, "javascript">>
        /\ calls[k].is_valid
        /\ calls[k].validation_result.issues = <<>>
        /\ calls[k].validation_result.warnings = <<>>

\* the labels of a list of issues or warnings, in order
Labels(list) == [i \in DOMAIN list |-> list[i].label]

\* C32: a redirect match and a content length under 100 characters each
\* add a warning and nothing else: the warning is recorded exactly when its
\* check matches, and content with no other finding is returned valid with
\* an empty issues list.
C32_WarningsOnly ==
    \A k \in DOMAIN calls :
        ( /\ calls[k].op = "validate_content"
          /\ NonEmpty(calls[k].html_content) )
        => LET w == Labels(calls[k].validation_result.warnings)
               redirect == Has(calls[k].html_content, {"redirect"})
               short == len(calls[k].html_content) < 100
           IN  /\ w = (IF redirect
                       THEN <<"Suspicious redirect patterns">> ELSE <<>>)
                      \o (IF short
                          THEN <<"Very short content (potential blocking)">>
                          ELSE <<>>)
               /\ ~Invalidating(calls[k].html_content)
                  => /\ calls[k].is_valid
                     /\ calls[k].validation_result.issues = <<>>

\* C32 witness: content that is one short line with a redirect pattern is
\* valid and carries the two warnings; so is long content with a redirect
C32_Witness ==
    \E k \in DOMAIN calls :
        /\ calls[k].op = "validate_content"
        /\ calls[k].html_content \in {<<"redirect">>, <<PlainText, "redirect">>}
        /\ calls[k].is_valid
        /\ calls[k].validation_result.issues = <<>>
        /\ calls[k].validation_result.warnings # <<>>

C34_UnknownKindRejected ==
    /\ ( /\ runPc # "unloaded"
         /\ \E s \in DOMAIN scrapers : scrapers[s] \notin SCRAPER_CLASS_MAP )
       => /\ runPc = "rejected"
          /\ ingestion_run_id = 0
          /\ summary.crawlers_run = 0
          /\ \A i \in DOMAIN ops : ops[i].status # "running"
    /\ \A s \in DOMAIN feed :
          feed[s].pc # "idle" => scrapers[s] \in SCRAPER_CLASS_MAP
    /\ runPc \in {"crawling", "done"}
       => summary.crawlers_run = Len(scrapers)

\* C34 witness: a configuration with a known and an unknown kind was
\* loaded and rejected
C34_Witness ==
    /\ runPc = "rejected"
    /\ scrapers = <<"playwright_rss_article_scraper", "invalid_type">>

\* C35: get_articles_for_operation called with the id of a run returns
\* exactly the articles stored under that run, so the list handed to
\* reporting after the run holds that run's records only.
C35_ArticlesOfTheRun ==
    runPc = "done"
    => get_articles_for_operation(articles, ingestion_run_id)
          = SelectSeq(articles,
                      LAMBDA row : row.ingestion_run_id = ingestion_run_id)

\* C36: the minimum-length policy never overwrites an error the scraper
\* attached: the record stored for an item that reaches process_item with
\* an error status keeps that status and that message, whatever the
\* lengths of its html and text content.
C36_ScraperErrorKept ==
    \A k \in DOMAIN calls :
        ( /\ "item" \in DOMAIN calls[k]
          /\ calls[k].item.kind = "article"
          /\ calls[k].item.ingestion_error_status # None )
        => \A row \in StoredBy(k) :
              /\ row.ingestion_error_status
                    = calls[k].item.ingestion_error_status
              /\ row.ingestion_error_message
                    = calls[k].item.ingestion_error_message
              /\ row.html_len = calls[k].item.html_len
              /\ row.text_len = calls[k].item.text_len

\* C36 witness: an item with a scraper error is stored with html content
\* under the minimum, another with content of full length
C36_Witness ==
    /\ Len(calls) = 2
    /\ \A k \in DOMAIN calls :
          /\ calls[k].item.kind = "article"
          /\ calls[k].item.ingestion_error_status = "captcha_detected"
          /\ StoredBy(k) # {}
    /\ calls[1].item.html_len < 10000
    /\ calls[2].item.html_len = 10000
    /\ calls[2].item.text_len = 465

\* C37: when scheduling or running the crawlers raises, run does not
\* propagate the exception: in the step that raises, the error is recorded
\* in the summary, the run record is left with status "failed" by the
\* except and the finally branch together, and run is at its return.
C37_RaiseEndsFailed ==
    [][summary'.errors # summary.errors
       => /\ Len(summary'.errors) = Len(summary.errors) + 1
          /\ runPc' = "done"
          /\ ingestion_run_id' = ingestion_run_id
          /\ ops'[ingestion_run_id].status = "failed"
          /\ ops'[ingestion_run_id].end_time = "now"
          /\ ops'[ingestion_run_id].num_articles_processed
                = count_articles_for_operation(articles, ingestion_run_id)]_vars

\* C37 witness: the crawl raised after an article of the run was stored,
\* and run returned with the error in the summary and the record failed
C37_Witness ==
    /\ runPc = "done"
    /\ summary.errors # <<>>
    /\ summary.crawlers_run = 1
    /\ ops[ingestion_run_id].status = "failed"
    /\ ops[ingestion_run_id].num_articles_processed >= 1

\* C38: whenever parse receives a browser page for an article, the page is
\* closed exactly once before the callback finishes, and no page method is
\* awaited after the close, on every path: validation failure, CAPTCHA
\* found, success, an exception during page processing.
C38_PageClosedOnce ==
    \A k \in DOMAIN calls :
        calls[k].op = "parse"
        => LET c == calls[k].page_calls
           IN  IF calls[k].page[1].has_page
               THEN /\ Cardinality({i \in DOMAIN c : c[i] = "close"}) = 1
                    /\ c[Len(c)] = "close"
                    /\ c[1] = "content"
               ELSE c = <<>>

\* C38 witness: a call whose content() raised and a call that ended at a
\* failed validation each closed their page
C38_Witness ==
    /\ Len(calls) = 2
    /\ calls[1].op = "parse"
    /\ calls[1].page[1].has_page
    /\ calls[1].page[1].raises = "content"
    /\ calls[2].op = "parse"
    /\ calls[2].page[1].has_page
    /\ calls[2].page[1].raises = "none"
    /\ ~calls[2].page[1].valid
    /\ \A k \in DOMAIN calls : calls[k].page_calls = <<"content", "close">>

\* C39: the pipeline is never built without its dependencies: from_crawler
\* raises ValueError exactly when the storage manager global or the
\* INGESTION_RUN_ID setting is unset, run sets both before a crawler is
\* scheduled, and no article is stored without storage manager or run id.
C39_PipelineHasDependencies ==
    /\ \A m \in {None, "storage_manager"} :
          \A id \in {NoRunId, GeneratedRunId, 1, 2} :
              IF m = None \/ id = NoRunId
              THEN from_crawler(m, id) = <<>>
              ELSE /\ Len(from_crawler(m, id)) = 1
                   /\ from_crawler(m, id)[1].storage_manager = m
                   /\ from_crawler(m, id)[1].ingestion_run_id = id
    /\ runPc \in {"created", "crawling"}
       => /\ GLOBAL_STORAGE_MANAGER = "storage_manager"
          /\ settings_run_id = ingestion_run_id
          /\ settings_run_id # NoRunId
          /\ from_crawler(GLOBAL_STORAGE_MANAGER, settings_run_id) # <<>>
    /\ runPc = "init"
       => /\ summary.crawlers_run = 0
          /\ \A s \in DOMAIN feed : feed[s].pc = "idle"
    /\ \A r \in 1..Len(articles) :
          /\ articles[r].ingestion_run_id # NoRunId
          /\ articles[r].ingestion_run_id = ingestion_run_id
             => GLOBAL_STORAGE_MANAGER = "storage_manager"

\* C39 witness: the crawl is under way with both dependencies set and an
\* article of the run went through the pipeline into storage
C39_Witness ==
    /\ runPc = "crawling"
    /\ GLOBAL_STORAGE_MANAGER = "storage_manager"
    /\ settings_run_id = ingestion_run_id
    /\ \E r \in 1..Len(articles) :
          articles[r].ingestion_run_id = settings_run_id

\* C40: check_published_date accepts a published date exactly when it is
\* after or equal to the threshold; a date equal to the threshold is
\* accepted; without a threshold every date is accepted; and the entry loop
\* skips a dated entry as old exactly when the check rejects its date.
C40_ThresholdBoundary ==
    /\ \A published \in {"2023-12-31", "2024-01-01", "2024-01-02"} :
          LET d == parse_date(published)
          IN  /\ d # NoDate
              /\ check_published_date(d)
                 <=> (limit_date = NoDate \/ d >= limit_date)
              /\ d = limit_date => check_published_date(d)
              /\ limit_date = NoDate => check_published_date(d)
    /\ \A k \in DOMAIN lastEntry :
          LET e == lastEntry[k].entry
              d == parse_date(e.published)
          IN  (e.title # "" /\ e.link # "" /\ d # NoDate)
              => /\ lastEntry[k].disposition \in {"old", "dispatched"}
                 /\ lastEntry[k].disposition = "dispatched"
                    <=> (limit_date = NoDate \/ d >= limit_date)

\* C40 witness: with a threshold configured, the entry dated on the
\* threshold day was handed on and fetched
C40_Witness ==
    /\ limit_date = parse_date("2024-01-01")
    /\ \E k \in DOMAIN lastEntry :
          /\ parse_date(lastEntry[k].entry.published) = limit_date
          /\ lastEntry[k].disposition = "dispatched"
    /\ \E s \in DOMAIN cand : \E i \in DOMAIN cand[s] :
          /\ cand[s][i].article.published_date = limit_date
          /\ cand[s][i].st = "done"

====
